---- MODULE Spec2Model ----
(***************************************************************************)
(* A model of otcs.py: the playlist loader of __main__, the retry gate     *)
(* check_file, the schedule writer write_schedule and the coordinator      *)
(* loop, with the external player and the schedule process as concurrent   *)
(* units and the three persisted files as state.                           *)
(*                                                                         *)
(* File names and playlist lines are sequences of one-character strings,   *)
(* so that startswith, splitext and replace are computed, not assumed.     *)
(* Python indices are kept 0-based as in the source; PyIndex and PySlice   *)
(* convert at the point of use.                                            *)
(***************************************************************************)
EXTENDS Integers, Sequences, FiniteSets, TLC

\* ---------------------------------------------------------------- bounds

\* Longest playlist explored.
MaxLen == 3
\* Largest positive RETRY_ATTEMPTS explored (-1 and 0 are always explored).
MaxRetry == 2
\* Largest PLAY_HISTORY_LENGTH explored.
MaxHistory == 2
\* Largest SCHEDULE_UPCOMING_LENGTH explored.
MaxUpcoming == 4
\* The wall clock runs from 0 to MaxTime and stays there.
MaxTime == 1
\* The count of completed cycles is exact below MaxCycles and stays there.
MaxCycles == 5
\* Longest raw playlist source explored by the loader.
MaxLines == 3

\* The same four bounds for the runs checked to their end under fairness.
LiveMaxLen == 2
LiveMaxRetry == 1
LiveMaxHistory == 1
LiveMaxUpcoming == 2

\* RETRY_PERIOD, the delay in seconds between two attempts.
RETRY_PERIOD == 5

Min(a, b) == IF a < b THEN a ELSE b

\* ------------------------------------------------------- Python sequences

\* seq[i] of Python, i 0-based, a negative i counting from the end.
PyIndex(seq, i) == IF i < 0 THEN seq[Len(seq) + i + 1] ELSE seq[i + 1]

\* seq[lo:hi] of Python for 0 <= lo, hi: the bounds are clipped to the length.
PySlice(seq, lo, hi) ==
    LET h == Min(hi, Len(seq))
    IN  IF lo >= h THEN << >> ELSE [k \in 1..(h - lo) |-> seq[lo + k]]

\* seq[-n:] of Python for n > 0: the last n elements, all of them if fewer.
PyLast(seq, n) ==
    IF Len(seq) <= n THEN seq ELSE [k \in 1..n |-> seq[Len(seq) - n + k]]

\* list(itertools.islice(itertools.cycle(seq), n)): the first n elements of
\* seq repeated for ever; nothing when seq is empty or n <= 0.
CycleTake(seq, n) ==
    IF Len(seq) = 0 \/ n <= 0 THEN << >>
    ELSE [k \in 1..n |-> seq[((k - 1) % Len(seq)) + 1]]

\* line.startswith(prefix)
StartsWith(line, prefix) ==
    /\ Len(line) >= Len(prefix)
    /\ \A k \in 1..Len(prefix) : line[k] = prefix[k]

\* text.rfind(ch): the 0-based place of the last ch, -1 when there is none.
RFind(text, ch) ==
    LET hits == {k \in 1..Len(text) : text[k] = ch}
    IN  IF hits = {} THEN -1 ELSE (CHOOSE k \in hits : \A j \in hits : j <= k) - 1

\* os.path.splitext(name)[0] on a POSIX host: the name without its last
\* extension; the dot must follow the last "/" and a non-dot character of
\* the base name.
SplitExtRoot(name) ==
    LET sepIndex == RFind(name, "/")
        dotIndex == RFind(name, ".")
    IN  IF /\ dotIndex > sepIndex
           /\ \E f \in (sepIndex + 1)..(dotIndex - 1) : name[f + 1] # "."
        THEN PySlice(name, 0, dotIndex)
        ELSE name

\* text.replace("\\", "/")
ReplaceBackslash(text) ==
    [k \in 1..Len(text) |-> IF text[k] = "\\" THEN "/" ELSE text[k]]

\* The name write_schedule shows for a playlist entry.
DisplayName(filename) == ReplaceBackslash(SplitExtRoot(filename))

\* ------------------------------------------------------ playlist loading

\* text.splitlines(): the lines of a text, a final line break adding none.
RECURSIVE SplitLines(_)
SplitLines(text) ==
    IF Len(text) = 0 THEN << >>
    ELSE LET breaks == {k \in 1..Len(text) : text[k] = "\n"}
         IN  IF breaks = {} THEN << text >>
             ELSE LET b == CHOOSE k \in breaks : \A j \in breaks : k <= j
                  IN  << SubSeq(text, 1, b - 1) >>
                          \o SplitLines(SubSeq(text, b + 1, Len(text)))

\* A mutant of NormalizePlaylist: the "//" comments are kept.
RECURSIVE NormalizePlaylistKeepsSlashes(_)
NormalizePlaylistKeepsSlashes(lines) ==
    IF Len(lines) = 0 THEN << >>
    ELSE LET i == Head(lines)
         IN  (IF /\ i # << >>
                 /\ ~StartsWith(i, << ";" >>)
                 /\ ~StartsWith(i, << "#" >>)
              THEN << i >> ELSE << >>) \o NormalizePlaylistKeepsSlashes(Tail(lines))

\* The list comprehension of __main__: the entries kept, in their order.
RECURSIVE NormalizePlaylist(_)
NormalizePlaylist(lines) ==
    IF Len(lines) = 0 THEN << >>
    ELSE LET i == Head(lines)
         IN  (IF /\ i # << >>
                 /\ ~StartsWith(i, << ";" >>)
                 /\ ~StartsWith(i, << "#" >>)
                 /\ ~StartsWith(i, << "/", "/" >>)
              THEN << i >> ELSE << >>) \o NormalizePlaylist(Tail(lines))

\* What __main__ reads from MEDIA_PLAYLIST before it filters: the lines of
\* the file for a path, the list itself for a list.
SourceLines(source) ==
    IF source.kind = "file" THEN SplitLines(source.text) ELSE source.lines

\* --------------------------------------------------------- the media files

FileA == << "A", ".", "m" >>
FileB == << "d", "\\", "B", ".", "m" >>
FileC == << "C" >>
Library == << FileA, FileB, FileC >>

\* The duration ffprobe reports for a file, in seconds.
Duration(file) ==
    CASE file = FileA -> 30
      [] file = FileB -> 20
      [] OTHER -> 10

\* A playlist source with n entries, taken in turn from the library, among
\* a blank line and comment lines.
Source(n) ==
    << << >>, << ";", "s" >> >>
        \o [k \in 1..n |-> Library[((k - 1) % Len(Library)) + 1]]
        \o << << "#", "s" >>, << "/", "/", "s" >> >>

\* The line kinds the loader is explored on: empty, the three comment
\* prefixes, and ordinary lines, two of them with a comment character that
\* does not make them comments.
LineKinds ==
    { << >>, << ";", "s" >>, << "#", "s" >>, << "/", "/", "s" >>,
      << "/", "s" >>, << "a" >>, << "a", ";" >> }

\* All sequences over S of length at most n.
SeqsUpTo(S, n) == UNION {[1..k -> S] : k \in 0..n}

\* The lines joined into the text of a playlist file, each line ended by a
\* line break, the last one only when closed.
RECURSIVE JoinLines(_, _)
JoinLines(lines, closed) ==
    IF Len(lines) = 0 THEN << >>
    ELSE Head(lines)
           \o (IF Len(lines) > 1 \/ closed THEN << "\n" >> ELSE << >>)
           \o JoinLines(Tail(lines), closed)

\* ------------------------------------------------------------- the state

VARIABLES
    \* configuration, fixed for a run of the model
    MEDIA_PLAYLIST,             \* the playlist source
    RETRY_ATTEMPTS,
    PLAY_HISTORY_LENGTH,
    SCHEDULE_PATH,              \* "None" when the schedule is disabled
    SCHEDULE_UPCOMING_LENGTH,
    \* the files
    index_file,                 \* play_index.txt
    history_file,               \* play_history.txt
    schedule_file,              \* the HTML schedule
    path_exists,                \* os.path.isfile of the media path
    now,                        \* the wall clock
    \* the coordinator process
    pc,
    media_playlist,
    play_index,
    video_time,
    video_file,
    retry_attempts_remaining,
    media_copy,
    previous_file,
    \* the two units of a cycle
    player,                     \* the external player
    player_rc,                  \* its exit status
    sched,                      \* the process running write_schedule
    anchor,                     \* the time write_schedule started from
    \* history variables
    cycles,                     \* calls of loop that returned
    checks,                     \* isfile calls of the current check_file
    sleeps,                     \* sleeps of the current check_file
    recorded                    \* the history lines written, oldest first

config == << MEDIA_PLAYLIST, RETRY_ATTEMPTS, PLAY_HISTORY_LENGTH,
             SCHEDULE_PATH, SCHEDULE_UPCOMING_LENGTH >>
files == << index_file, history_file, schedule_file >>
locals == << play_index, video_time, video_file, retry_attempts_remaining,
             media_copy, previous_file >>
units == << player, player_rc, sched, anchor >>
gate_counts == << checks, sleeps >>
vars == << config, files, path_exists, now, pc, media_playlist, locals,
           units, cycles, gate_counts, recorded >>

\* ------------------------------------------- the pure steps of the cycle

\* A mutant of MediaCopy: a long enough rest of the playlist is cut after
\* SCHEDULE_UPCOMING_LENGTH entries.
MediaCopyCutShort(playlist, index, upcoming) ==
    LET media_progress == PySlice(playlist, index, Len(playlist))
    IN  IF Len(media_progress) >= upcoming
        THEN PySlice(media_progress, 0, upcoming)
        ELSE media_progress
               \o CycleTake(playlist, upcoming - Len(media_progress) + 1)

\* The list loop hands to write_schedule: the playlist from the current
\* entry on, cut after SCHEDULE_UPCOMING_LENGTH + 1 entries or extended from
\* the start of the playlist.
MediaCopy(playlist, index, upcoming) ==
    LET media_progress == PySlice(playlist, index, Len(playlist))
    IN  IF Len(media_progress) >= upcoming
        THEN PySlice(media_progress, 0, upcoming + 1)
        ELSE media_progress
               \o CycleTake(playlist, upcoming - Len(media_progress) + 1)

\* A mutant of ComingUpNext: the duration is added before the entry is
\* appended, so every entry gets the time it ends.
RECURSIVE ComingUpNextEnds(_, _)
ComingUpNextEnds(file_list, next_time) ==
    IF Len(file_list) = 0 THEN << >>
    ELSE LET filename == Head(file_list)
             duration == Duration(filename)
         IN  << [time |-> next_time + duration, name |-> DisplayName(filename)] >>
                 \o ComingUpNextEnds(Tail(file_list), next_time + duration)

\* The for loop of write_schedule: coming_up_next for file_list, the first
\* entry starting at next_time and each later one when the one before ends.
RECURSIVE ComingUpNext(_, _)
ComingUpNext(file_list, next_time) ==
    IF Len(file_list) = 0 THEN << >>
    ELSE LET filename == Head(file_list)
             duration == Duration(filename)
         IN  << [time |-> next_time, name |-> DisplayName(filename)] >>
                 \o ComingUpNext(Tail(file_list), next_time + duration)

\* A mutant of HistoryLines: the first `length` lines are kept.
HistoryLinesOldest(buffer, line, length) ==
    PySlice(Append(buffer, line), 0, length)

\* The lines loop writes to play_history.txt: the lines read, then the new
\* one, cut to the last `length`.
HistoryLines(buffer, line, length) == PyLast(Append(buffer, line), length)

\* A mutant of IndexAfterPlayback: the index wraps to 0 before it is written.
IndexAfterPlaybackWrapped(index) ==
    IF index + 1 >= Len(media_playlist) THEN 0 ELSE index + 1

\* A mutant of IndexAfterPlayback: the index is not advanced.
IndexAfterPlaybackStays(index) == index

\* A mutant of IndexAfterPlayback: the index is advanced by two.
IndexAfterPlaybackSkips(index) == index + 2

\* The index loop writes after a playback.
IndexAfterPlayback(index) == index + 1

\* A mutant of IndexAfterEnd: the index read is written back as it is.
IndexAfterEndStays == Len(media_playlist)

\* The index loop writes when the index read is past the playlist.
IndexAfterEnd == 0

\* The counts of one check_file call are exact below MaxChecks.
MaxChecks == MaxRetry + 2
\* The history lines written are all kept up to MaxRecorded of them, and the
\* last MaxRecorded from then on: one more than play_history.txt may hold.
MaxRecorded == PLAY_HISTORY_LENGTH + 1

NoIndexFile == [exists |-> FALSE, value |-> 0]
NoHistoryFile == [exists |-> FALSE, lines |-> << >>]
NoScheduleFile == [exists |-> FALSE, items |-> << >>, previous |-> << >>]

ScheduleEnabled == SCHEDULE_PATH # "None"

\* The locals of loop and the two units before a cycle and after it.
NoCycle ==
    /\ play_index = 0
    /\ video_time = 0
    /\ video_file = << >>
    /\ retry_attempts_remaining = 0
    /\ media_copy = << >>
    /\ previous_file = << >>
    /\ player = "idle"
    /\ player_rc = 0
    /\ sched = "idle"
    /\ anchor = 0
    /\ checks = 0
    /\ sleeps = 0

\* The return of loop, or the end of the process: the locals are gone and
\* no unit is left.
ResetCycle ==
    /\ play_index' = 0
    /\ video_time' = 0
    /\ video_file' = << >>
    /\ retry_attempts_remaining' = 0
    /\ media_copy' = << >>
    /\ previous_file' = << >>
    /\ player' = "idle"
    /\ player_rc' = 0
    /\ sched' = "idle"
    /\ anchor' = 0
    /\ checks' = 0
    /\ sleeps' = 0

\* The configurations explored: playlists of the given lengths, and the
\* given retry counts, history lengths and schedule lengths.
InitConfig(lengths, retries, histories, upcomings) ==
    /\ MEDIA_PLAYLIST \in
         {[kind |-> "list", lines |-> Source(n), text |-> << >>] : n \in lengths}
    /\ RETRY_ATTEMPTS \in retries
    /\ PLAY_HISTORY_LENGTH \in histories
    /\ \/ /\ SCHEDULE_PATH = "None"
          /\ SCHEDULE_UPCOMING_LENGTH = CHOOSE m \in upcomings : TRUE
       \/ /\ SCHEDULE_PATH = "schedule.html"
          /\ SCHEDULE_UPCOMING_LENGTH \in upcomings

\* The process has started and has not read its playlist; the index file is
\* absent or holds 0, there is no history and no schedule.
InitState ==
    /\ index_file \in {NoIndexFile, [exists |-> TRUE, value |-> 0]}
    /\ history_file = NoHistoryFile
    /\ schedule_file = NoScheduleFile
    /\ path_exists \in BOOLEAN
    /\ now = 0
    /\ pc = "main"
    /\ media_playlist = << >>
    /\ NoCycle
    /\ recorded = << >>

Init ==
    /\ InitConfig(0..MaxLen, -1..MaxRetry, 0..MaxHistory, 0..MaxUpcoming)
    /\ InitState
    /\ cycles = 0

\* The start of the runs explored for what the program does in the end:
\* a playlist that is not empty and, of the other settings, the ends of
\* their ranges.
InitLive ==
    /\ InitConfig(1..LiveMaxLen, {-1, 0, LiveMaxRetry}, {0, LiveMaxHistory},
                  {LiveMaxUpcoming})
    /\ InitState
    /\ cycles = 0

\* ------------------------------------------------------------ __main__

\* __main__ up to the while loop: read MEDIA_PLAYLIST and drop the blank
\* lines and the comments; a source that is neither a path nor a list
\* raises, which ends the process.
LoadPlaylist ==
    /\ pc = "main"
    /\ IF MEDIA_PLAYLIST.kind \in {"file", "list"}
       THEN /\ media_playlist' = NormalizePlaylist(SourceLines(MEDIA_PLAYLIST))
            /\ pc' = "loop"
       ELSE /\ pc' = "aborted"
            /\ UNCHANGED media_playlist
    /\ UNCHANGED << config, files, path_exists, now, locals, units, cycles,
                    gate_counts, recorded >>

\* ---------------------------------------------------------------- loop

\* A mutant of ReadIndex: the index is compared with <=, so that an index
\* equal to the length of the playlist is looked up, which raises IndexError
\* and ends the process.
ReadIndexInclusive ==
    /\ pc = "loop"
    /\ LET index == IF index_file.exists THEN index_file.value ELSE 0
       IN  /\ index_file' = [exists |-> TRUE, value |-> index]
           /\ IF index < Len(media_playlist)
              THEN /\ play_index' = index
                   /\ video_time' = now
                   /\ video_file' = PyIndex(media_playlist, index)
                   /\ retry_attempts_remaining' = RETRY_ATTEMPTS
                   /\ pc' = "check_file"
              ELSE IF index = Len(media_playlist)
              THEN /\ play_index' = index
                   /\ video_time' = now
                   /\ pc' = "aborted"
                   /\ UNCHANGED << video_file, retry_attempts_remaining >>
              ELSE /\ play_index' = IndexAfterEnd
                   /\ pc' = "write_index"
                   /\ UNCHANGED << video_time, video_file,
                                   retry_attempts_remaining >>
    /\ UNCHANGED << config, history_file, schedule_file, path_exists, now,
                    media_playlist, media_copy, previous_file, units, cycles,
                    gate_counts, recorded >>

\* A mutant of ReadIndex: an index past the playlist is taken as 0 for this
\* call, which goes on to play the first entry.
ReadIndexWraps ==
    /\ pc = "loop"
    /\ LET index == IF index_file.exists THEN index_file.value ELSE 0
       IN  /\ index_file' = [exists |-> TRUE, value |-> index]
           /\ IF Len(media_playlist) > 0
              THEN /\ play_index' = IF index < Len(media_playlist) THEN index ELSE 0
                   /\ video_time' = now
                   /\ video_file' = PyIndex(media_playlist, play_index')
                   /\ retry_attempts_remaining' = RETRY_ATTEMPTS
                   /\ pc' = "check_file"
              ELSE /\ play_index' = IndexAfterEnd
                   /\ pc' = "write_index"
                   /\ UNCHANGED << video_time, video_file,
                                   retry_attempts_remaining >>
    /\ UNCHANGED << config, history_file, schedule_file, path_exists, now,
                    media_playlist, media_copy, previous_file, units, cycles,
                    gate_counts, recorded >>

\* loop, from its start to the call of check_file: read play_index.txt,
\* creating it with 0 when it is absent; with an index inside the playlist
\* take the time and the entry and enter check_file, else reset the index.
ReadIndex ==
    /\ pc = "loop"
    /\ LET index == IF index_file.exists THEN index_file.value ELSE 0
       IN  /\ index_file' = [exists |-> TRUE, value |-> index]
           /\ IF index < Len(media_playlist)
              THEN /\ play_index' = index
                   /\ video_time' = now
                   /\ video_file' = PyIndex(media_playlist, index)
                   /\ retry_attempts_remaining' = RETRY_ATTEMPTS
                   /\ pc' = "check_file"
              ELSE /\ play_index' = IndexAfterEnd
                   /\ pc' = "write_index"
                   /\ UNCHANGED << video_time, video_file,
                                   retry_attempts_remaining >>
    /\ UNCHANGED << config, history_file, schedule_file, path_exists, now,
                    media_playlist, media_copy, previous_file, units, cycles,
                    gate_counts, recorded >>

\* A mutant of GateOnMissing: the last attempt is not made.
GateOnMissingOffByOne(remaining) ==
    IF remaining > 1 THEN "retry"
    ELSE IF remaining >= 0 THEN "raise"
    ELSE "retry_forever"

\* A mutant of GateOnMissing: a negative count is out of attempts too.
GateOnMissingNoForever(remaining) ==
    IF remaining > 0 THEN "retry" ELSE "raise"

\* What check_file does when the path is not a file, from the attempts
\* remaining: count one attempt down and retry, raise, or retry for ever.
GateOnMissing(remaining) ==
    IF remaining > 0 THEN "retry"
    ELSE IF remaining = 0 THEN "raise"
    ELSE "retry_forever"

\* A mutant of CheckFile: the FileNotFoundError of check_file is caught by
\* loop, which goes on with the cycle.
CheckFileSwallows ==
    /\ pc = "check_file"
    /\ checks' = Min(checks + 1, MaxChecks)
    /\ IF path_exists
       THEN /\ pc' = "history"
            /\ UNCHANGED retry_attempts_remaining
       ELSE LET branch == GateOnMissing(retry_attempts_remaining)
            IN  /\ pc' = IF branch = "raise" THEN "history" ELSE "sleep"
                /\ retry_attempts_remaining' =
                     IF branch = "retry" THEN retry_attempts_remaining - 1
                     ELSE retry_attempts_remaining
    /\ UNCHANGED << config, files, path_exists, now, media_playlist,
                    play_index, video_time, video_file, media_copy,
                    previous_file, units, cycles, sleeps, recorded >>

\* One test of the while condition of check_file and the branch it takes:
\* return when the path is a file; else count the attempt down and go to
\* sleep, or raise FileNotFoundError, which ends the process.
CheckFile ==
    /\ pc = "check_file"
    /\ checks' = Min(checks + 1, MaxChecks)
    /\ IF path_exists
       THEN /\ pc' = "history"
            /\ UNCHANGED retry_attempts_remaining
       ELSE LET branch == GateOnMissing(retry_attempts_remaining)
            IN  /\ pc' = IF branch = "raise" THEN "aborted" ELSE "sleep"
                /\ retry_attempts_remaining' =
                     IF branch = "retry" THEN retry_attempts_remaining - 1
                     ELSE retry_attempts_remaining
    /\ UNCHANGED << config, files, path_exists, now, media_playlist,
                    play_index, video_time, video_file, media_copy,
                    previous_file, units, cycles, sleeps, recorded >>

\* time.sleep(RETRY_PERIOD) of check_file, then back to the while condition.
Sleep ==
    /\ pc = "sleep"
    /\ sleeps' = Min(sleeps + 1, MaxChecks)
    /\ now' = Min(now + RETRY_PERIOD, MaxTime)
    /\ pc' = "check_file"
    /\ UNCHANGED << config, files, path_exists, media_playlist, locals,
                    units, cycles, checks, recorded >>

\* A mutant of RecordHistory: the history is written with
\* PLAY_HISTORY_LENGTH >= 0, so with 0 as well.
RecordHistoryAlways ==
    /\ pc = "history"
    /\ IF PLAY_HISTORY_LENGTH >= 0
       THEN LET line == [time |-> video_time, file |-> video_file]
                play_history_buffer ==
                    IF history_file.exists THEN history_file.lines ELSE << >>
            IN  /\ history_file' =
                     [exists |-> TRUE,
                      lines |-> HistoryLines(play_history_buffer, line,
                                             PLAY_HISTORY_LENGTH)]
                /\ recorded' = IF Len(recorded) < MaxRecorded
                               THEN Append(recorded, line)
                               ELSE Append(Tail(recorded), line)
       ELSE UNCHANGED << history_file, recorded >>
    /\ pc' = "start"
    /\ UNCHANGED << config, index_file, schedule_file, path_exists, now,
                    media_playlist, locals, units, cycles, gate_counts >>

\* The history block of loop: with PLAY_HISTORY_LENGTH > 0 read
\* play_history.txt (no lines when it is absent), append the line of this
\* entry and write the last PLAY_HISTORY_LENGTH lines back.
RecordHistory ==
    /\ pc = "history"
    /\ IF PLAY_HISTORY_LENGTH > 0
       THEN LET line == [time |-> video_time, file |-> video_file]
                play_history_buffer ==
                    IF history_file.exists THEN history_file.lines ELSE << >>
            IN  /\ history_file' =
                     [exists |-> TRUE,
                      lines |-> HistoryLines(play_history_buffer, line,
                                             PLAY_HISTORY_LENGTH)]
                /\ recorded' = IF Len(recorded) < MaxRecorded
                               THEN Append(recorded, line)
                               ELSE Append(Tail(recorded), line)
       ELSE UNCHANGED << history_file, recorded >>
    /\ pc' = "start"
    /\ UNCHANGED << config, index_file, schedule_file, path_exists, now,
                    media_playlist, locals, units, cycles, gate_counts >>

\* With the schedule enabled: build media_copy and the two processes and
\* start the player process. With it disabled: subprocess.run starts the
\* player and loop waits for it.
StartPlayer ==
    /\ pc = "start"
    /\ player' = "running"
    /\ IF ScheduleEnabled
       THEN /\ media_copy' = MediaCopy(media_playlist, play_index,
                                       SCHEDULE_UPCOMING_LENGTH)
            /\ previous_file' = PyIndex(media_playlist, play_index - 1)
            /\ pc' = "start_schedule"
       ELSE /\ pc' = "join_player"
            /\ UNCHANGED << media_copy, previous_file >>
    /\ UNCHANGED << config, files, path_exists, now, media_playlist,
                    play_index, video_time, video_file,
                    retry_attempts_remaining, player_rc, sched, anchor,
                    cycles, gate_counts, recorded >>

\* schedule_p.start()
StartSchedule ==
    /\ pc = "start_schedule"
    /\ sched' = "running"
    /\ pc' = "join_player"
    /\ UNCHANGED << config, files, path_exists, now, media_playlist, locals,
                    player, player_rc, anchor, cycles, gate_counts, recorded >>

\* A mutant of JoinPlayer: subprocess.run is called with check=True, so that
\* a status other than 0 raises and ends the process.
JoinPlayerChecked ==
    /\ pc = "join_player"
    /\ player = "exited"
    /\ IF ScheduleEnabled
       THEN /\ pc' = "join_schedule"
            /\ UNCHANGED play_index
       ELSE IF player_rc # 0
       THEN /\ pc' = "aborted"
            /\ UNCHANGED play_index
       ELSE /\ pc' = "write_index"
            /\ play_index' = IndexAfterPlayback(play_index)
    /\ UNCHANGED << config, files, path_exists, now, media_playlist,
                    video_time, video_file, retry_attempts_remaining,
                    media_copy, previous_file, units, cycles, gate_counts,
                    recorded >>

\* player_p.join(), or the return of subprocess.run when the schedule is
\* disabled, which is followed by the increment of play_index.
JoinPlayer ==
    /\ pc = "join_player"
    /\ player = "exited"
    /\ IF ScheduleEnabled
       THEN /\ pc' = "join_schedule"
            /\ UNCHANGED play_index
       ELSE /\ pc' = "write_index"
            /\ play_index' = IndexAfterPlayback(play_index)
    /\ UNCHANGED << config, files, path_exists, now, media_playlist,
                    video_time, video_file, retry_attempts_remaining,
                    media_copy, previous_file, units, cycles, gate_counts,
                    recorded >>

\* A mutant of JoinSchedule: loop does not wait for the schedule process.
JoinScheduleNoWait ==
    /\ pc = "join_schedule"
    /\ pc' = "write_index"
    /\ play_index' = IndexAfterPlayback(play_index)
    /\ UNCHANGED << config, files, path_exists, now, media_playlist,
                    video_time, video_file, retry_attempts_remaining,
                    media_copy, previous_file, units, cycles, gate_counts,
                    recorded >>

\* schedule_p.join(), followed by the increment of play_index.
JoinSchedule ==
    /\ pc = "join_schedule"
    /\ sched \in {"done", "failed"}
    /\ pc' = "write_index"
    /\ play_index' = IndexAfterPlayback(play_index)
    /\ UNCHANGED << config, files, path_exists, now, media_playlist,
                    video_time, video_file, retry_attempts_remaining,
                    media_copy, previous_file, units, cycles, gate_counts,
                    recorded >>

\* The end of loop: write play_index to play_index.txt and return; the
\* locals of the call are gone.
WriteIndex ==
    /\ pc = "write_index"
    /\ index_file' = [exists |-> TRUE, value |-> play_index]
    /\ cycles' = Min(cycles + 1, MaxCycles)
    /\ pc' = "loop"
    /\ ResetCycle
    /\ UNCHANGED << config, history_file, schedule_file, path_exists, now,
                    media_playlist, recorded >>

\* ------------------------------------------------------ the two units

\* The player exits, with status 0 or not; nothing raises on its status.
PlayerExit ==
    /\ player = "running"
    /\ player' = "exited"
    /\ \E rc \in {0, 1} : player_rc' = rc
    /\ now' = Min(now + 1, MaxTime)
    /\ UNCHANGED << config, files, path_exists, pc, media_playlist, locals,
                    sched, anchor, cycles, gate_counts, recorded >>

\* A mutant of WriteSchedule: write_schedule is called in the coordinator's
\* process, so that the exception of get_length ends the coordinator.
WriteScheduleInProcess ==
    /\ sched = "running"
    /\ anchor' = now
    /\ \E unreadable \in {<< >>} \cup {Library[k] : k \in 1..Len(Library)} :
         IF \E k \in 1..Len(media_copy) : media_copy[k] = unreadable
         THEN /\ sched' = "failed"
              /\ pc' = "aborted"
              /\ UNCHANGED schedule_file
         ELSE /\ sched' = "done"
              /\ UNCHANGED pc
              /\ schedule_file' =
                   [exists |-> TRUE,
                    items |-> ComingUpNext(media_copy, now),
                    previous |-> DisplayName(previous_file)]
    /\ UNCHANGED << config, index_file, history_file, path_exists, now,
                    media_playlist, locals, player, player_rc, cycles,
                    gate_counts, recorded >>

\* write_schedule in its process: take the time, probe every file of
\* file_list, and write the schedule; an empty answer of ffprobe for one of
\* the files raises, the process ends and nothing is written.
WriteSchedule ==
    /\ sched = "running"
    /\ anchor' = now
    /\ \E unreadable \in {<< >>} \cup {Library[k] : k \in 1..Len(Library)} :
         IF \E k \in 1..Len(media_copy) : media_copy[k] = unreadable
         THEN /\ sched' = "failed"
              /\ UNCHANGED schedule_file
         ELSE /\ sched' = "done"
              /\ schedule_file' =
                   [exists |-> TRUE,
                    items |-> ComingUpNext(media_copy, now),
                    previous |-> DisplayName(previous_file)]
    /\ UNCHANGED << config, index_file, history_file, path_exists, now, pc,
                    media_playlist, locals, player, player_rc, cycles,
                    gate_counts, recorded >>

\* ------------------------------------------------------ the environment

\* Only check_file looks at the media path, so the path changes state where
\* that can be seen: before a cycle and while check_file runs.
Gating == pc \in {"loop", "check_file", "sleep"}

\* The media path becomes a file (the share is mounted, the file is copied).
PathAppears ==
    /\ Gating
    /\ ~path_exists
    /\ path_exists' = TRUE
    /\ UNCHANGED << config, files, now, pc, media_playlist, locals, units,
                    cycles, gate_counts, recorded >>

\* The media path stops being a file.
PathVanishes ==
    /\ Gating
    /\ path_exists
    /\ path_exists' = FALSE
    /\ UNCHANGED << config, files, now, pc, media_playlist, locals, units,
                    cycles, gate_counts, recorded >>

\* The process is stopped between two calls of loop, or has ended on an
\* exception, and is started again: the files stay, the rest is new.
Restart ==
    /\ pc \in {"loop", "aborted"}
    /\ pc' = "main"
    /\ media_playlist' = << >>
    /\ ResetCycle
    /\ UNCHANGED << config, files, path_exists, now, cycles, recorded >>

Next ==
    \/ LoadPlaylist
    \/ ReadIndex
    \/ CheckFile
    \/ Sleep
    \/ RecordHistory
    \/ StartPlayer
    \/ StartSchedule
    \/ JoinPlayer
    \/ JoinSchedule
    \/ WriteIndex
    \/ PlayerExit
    \/ WriteSchedule
    \/ PathAppears
    \/ PathVanishes
    \/ Restart

Spec == Init /\ [][Next]_vars

\* The steps of the coordinator process, which runs whenever it can.
Coordinator ==
    \/ LoadPlaylist
    \/ ReadIndex
    \/ CheckFile
    \/ Sleep
    \/ RecordHistory
    \/ StartPlayer
    \/ StartSchedule
    \/ JoinPlayer
    \/ JoinSchedule
    \/ WriteIndex

\* The coordinator is one sequential process that is never starved, and a
\* player or a schedule process that was started comes to its end. Nothing
\* is assumed of the media path or of restarts.
Fairness ==
    /\ WF_vars(Coordinator)
    /\ WF_vars(PlayerExit)
    /\ WF_vars(WriteSchedule)

FairSpec == InitLive /\ [][Next]_vars /\ Fairness

\* The playlist sources the loader is explored on: every list of at most
\* MaxLines lines, every file made of such lines, with and without a final
\* line break, and a source that is neither; `lines` keeps, for a file, the
\* lines its text was made of.
LoaderSources ==
    LET lists == SeqsUpTo(LineKinds, MaxLines)
    IN  {[kind |-> "list", lines |-> l, text |-> << >>] : l \in lists}
          \cup {[kind |-> "file", lines |-> l, text |-> JoinLines(l, closed)] :
                  l \in lists, closed \in BOOLEAN}
          \cup {[kind |-> "other", lines |-> << >>, text |-> << >>]}

\* The start of the runs that explore the loader: any source, and the
\* settings otcs.py ships with.
InitLoad ==
    /\ MEDIA_PLAYLIST \in LoaderSources
    /\ RETRY_ATTEMPTS = 0
    /\ PLAY_HISTORY_LENGTH = 10
    /\ SCHEDULE_PATH = "schedule.html"
    /\ SCHEDULE_UPCOMING_LENGTH = 10
    /\ InitState
    /\ cycles = 0

\* The loader alone: the process reads its playlist, and is started again.
NextLoad ==
    \/ LoadPlaylist
    \/ Restart

SpecLoad == InitLoad /\ [][NextLoad]_vars

\* The start of the runs that explore what play_index.txt may hold when the
\* process starts: nothing, or any index up to one past the longest
\* playlist, as after a run on a longer playlist; of the other settings,
\* the ends of their ranges.
InitAnyCursor ==
    /\ InitConfig(0..MaxLen, {-1, 0}, {0, MaxHistory}, {0, MaxUpcoming})
    /\ index_file \in {NoIndexFile}
           \cup {[exists |-> TRUE, value |-> v] : v \in 0..(MaxLen + 1)}
    /\ history_file = NoHistoryFile
    /\ schedule_file = NoScheduleFile
    /\ path_exists \in BOOLEAN
    /\ now = 0
    /\ pc = "main"
    /\ media_playlist = << >>
    /\ NoCycle
    /\ recorded = << >>
    /\ cycles = 0

SpecAnyCursor == InitAnyCursor /\ [][Next]_vars

\* The process is killed inside a call of loop, anywhere from check_file to
\* the write of the index, and is started again: its units go with it, the
\* files stay as they are.
Crash ==
    /\ pc \in {"check_file", "sleep", "history", "start", "start_schedule",
               "join_player", "join_schedule", "write_index"}
    /\ pc' = "main"
    /\ media_playlist' = << >>
    /\ ResetCycle
    /\ UNCHANGED << config, files, path_exists, now, cycles, recorded >>

\* The program with restarts at any place.
NextCrash ==
    \/ Next
    \/ Crash

SpecCrash == Init /\ [][NextCrash]_vars

\* ------------------------------------------------------------ the claims

\* The playlist has been loaded in this run of the process.
Loaded == pc # "main"

\* The cursor play_index.txt holds, an absent file counting as 0.
PersistedCursor == IF index_file.exists THEN index_file.value ELSE 0

\* A step in which loop writes play_index.txt and returns.
CycleEnds == pc = "write_index" /\ pc' = "loop"

\* C1 as stated: for a playlist of length L >= 1, after C completed cycles
\* the persisted cursor is C mod L, so the cycle that plays the last entry
\* persists 0.
C1_CursorIsCyclesModLength ==
    (Loaded /\ Len(media_playlist) >= 1 /\ cycles < MaxCycles)
        => PersistedCursor = cycles % Len(media_playlist)

\* C1 amended: for a playlist of length L >= 1, after C completed cycles the
\* persisted cursor is C mod (L + 1): a cycle that reads a cursor c < L
\* persists c + 1, L after the last entry, and the cycle that reads L plays
\* nothing and persists 0.
C1_CursorIsCyclesModLengthPlusOne ==
    /\ []((Loaded /\ Len(media_playlist) >= 1 /\ cycles < MaxCycles)
            => PersistedCursor = cycles % (Len(media_playlist) + 1))
    /\ [][(Len(media_playlist) >= 1 /\ CycleEnds)
            => /\ index_file'.exists
               /\ index_file'.value =
                    IF PersistedCursor < Len(media_playlist)
                    THEN PersistedCursor + 1 ELSE 0
               /\ (PersistedCursor = Len(media_playlist) <=> player = "idle")]_vars

\* C1 witness: a playlist of two entries or more has gone once round: L + 1
\* cycles are complete and the cursor is back at 0.
C1_Witness ==
    /\ Loaded
    /\ Len(media_playlist) >= 2
    /\ cycles = Len(media_playlist) + 1
    /\ cycles < MaxCycles
    /\ index_file = [exists |-> TRUE, value |-> 0]

\* C2: with PLAY_HISTORY_LENGTH = N > 0, play_history.txt never holds more
\* than N lines, and holds the last min(N, k) of the k lines written so far,
\* oldest first.
C2_HistoryIsLastRecords ==
    PLAY_HISTORY_LENGTH > 0 =>
        LET k == Len(recorded)
            m == IF k < PLAY_HISTORY_LENGTH THEN k ELSE PLAY_HISTORY_LENGTH
        IN  /\ Len(history_file.lines) <= PLAY_HISTORY_LENGTH
            /\ Len(history_file.lines) = m
            /\ \A j \in 1..m : history_file.lines[j] = recorded[k - m + j]
            /\ history_file.exists <=> k > 0

\* C2 witness: N = 2 and a third line has been written, which evicted the
\* first.
C2_Witness ==
    /\ PLAY_HISTORY_LENGTH = 2
    /\ Len(recorded) = 3
    /\ history_file.lines = << recorded[2], recorded[3] >>
    /\ recorded[1] # recorded[2]

\* The states of a cycle in which media_copy has been built and play_index
\* is still the index read.
SliceBuilt == ScheduleEnabled /\ pc \in {"start_schedule", "join_player", "join_schedule"}

\* C3 as stated: with the schedule enabled and a playlist of length L >= 1,
\* the list handed to write_schedule, and the schedule written from it, hold
\* exactly SCHEDULE_UPCOMING_LENGTH items.
C3_SliceHasUpcomingLength ==
    (SliceBuilt /\ Len(media_playlist) >= 1) =>
        /\ Len(media_copy) = SCHEDULE_UPCOMING_LENGTH
        /\ sched = "done" => Len(schedule_file.items) = SCHEDULE_UPCOMING_LENGTH

\* C3 amended: the list handed to write_schedule, and the schedule written
\* from it, hold M + 1 items (the current entry and M more), but M items
\* when exactly M entries are left from the cursor to the end of the
\* playlist.
C3_SliceHasUpcomingLengthPlusOne ==
    (SliceBuilt /\ Len(media_playlist) >= 1) =>
        /\ Len(media_copy) =
             IF Len(media_playlist) - play_index = SCHEDULE_UPCOMING_LENGTH
             THEN SCHEDULE_UPCOMING_LENGTH
             ELSE SCHEDULE_UPCOMING_LENGTH + 1
        /\ sched = "done" => Len(schedule_file.items) = Len(media_copy)

\* C3 witness: a schedule of M + 1 items has been written from a slice that
\* ran past the end of the playlist.
C3_Witness ==
    /\ SliceBuilt
    /\ sched = "done"
    /\ Len(media_playlist) - play_index < SCHEDULE_UPCOMING_LENGTH
    /\ Len(schedule_file.items) = SCHEDULE_UPCOMING_LENGTH + 1

\* The durations of the n playlist entries from index c on, round the end
\* of the playlist.
RECURSIVE DurationsFrom(_, _)
DurationsFrom(c, n) ==
    IF n = 0 THEN 0
    ELSE DurationsFrom(c, n - 1)
           + Duration(media_playlist[((c + n - 1) % Len(media_playlist)) + 1])

\* C4: the k-th item of the schedule written in a cycle, k from 0, names
\* playlist[(c + k) mod L] for the cursor c of the cycle, and starts at the
\* anchor plus the durations of the k items before it.
C4_ScheduleFollowsPlaylist ==
    (SliceBuilt /\ sched = "done") =>
        /\ schedule_file.exists
        /\ \A k \in 0..(Len(schedule_file.items) - 1) :
             LET item == schedule_file.items[k + 1]
                 entry == media_playlist[((play_index + k) % Len(media_playlist)) + 1]
             IN  /\ item.name = DisplayName(entry)
                 /\ item.time = anchor + DurationsFrom(play_index, k)

\* C4 witness: the playlist A(30), B(20), C(10) at cursor 1 with M = 4:
\* the schedule is (T0, d/B), (T0+20, C), (T0+30, A), (T0+60, d/B), (T0+80, C).
C4_Witness ==
    /\ SliceBuilt
    /\ sched = "done"
    /\ media_playlist = << FileA, FileB, FileC >>
    /\ play_index = 1
    /\ SCHEDULE_UPCOMING_LENGTH = 4
    /\ schedule_file.items =
         << [time |-> anchor, name |-> << "d", "/", "B" >>],
            [time |-> anchor + 20, name |-> << "C" >>],
            [time |-> anchor + 30, name |-> << "A" >>],
            [time |-> anchor + 60, name |-> << "d", "/", "B" >>],
            [time |-> anchor + 80, name |-> << "C" >>] >>

\* check_file has raised FileNotFoundError.
GateFailed == pc = "aborted" /\ video_file # << >>

\* C5: check_file on a path that is a file at none of its checks, with
\* RETRY_ATTEMPTS = k >= 0, raises after exactly k + 1 checks and k sleeps
\* (one check and no sleep for k = 0); between two checks it has slept as
\* often as it has checked and counted as many attempts down; and a check
\* that finds the file returns at once, without raising.
C5_GateChecksAndSleeps ==
    /\ []((GateFailed /\ RETRY_ATTEMPTS >= 0)
            => checks = RETRY_ATTEMPTS + 1 /\ sleeps = RETRY_ATTEMPTS)
    /\ [](GateFailed => RETRY_ATTEMPTS >= 0)
    /\ []((pc = "check_file" /\ RETRY_ATTEMPTS >= 0)
            => /\ checks = sleeps
               /\ retry_attempts_remaining = RETRY_ATTEMPTS - sleeps)
    /\ [][(pc = "check_file" /\ pc' # "check_file")
            => IF path_exists
               THEN pc' = "history" /\ UNCHANGED retry_attempts_remaining
               ELSE pc' \in {"sleep", "aborted"}]_vars

\* C5 witness: with RETRY_ATTEMPTS = 2 the gate has raised after three
\* checks and two sleeps.
C5_Witness ==
    /\ GateFailed
    /\ RETRY_ATTEMPTS = 2
    /\ checks = 3
    /\ sleeps = 2

\* The units of a cycle have both ended.
UnitsEnded == player = "exited" /\ sched \in {"done", "failed"}

\* C7: with the schedule enabled, play_index.txt is written in a cycle that
\* played only when the player and the schedule process have both ended,
\* whichever ended first; and while loop reads the index, waits in
\* check_file, writes the history or is between two cycles, no unit runs.
C7_CursorWrittenAfterBothUnits ==
    /\ [](pc \in {"main", "loop", "check_file", "sleep", "history", "start"}
            => player = "idle" /\ sched = "idle")
    /\ []((ScheduleEnabled /\ pc = "write_index" /\ player # "idle")
            => UnitsEnded)
    /\ [][(ScheduleEnabled /\ player # "idle" /\ index_file' # index_file)
            => UnitsEnded /\ CycleEnds]_vars
    /\ [][(ScheduleEnabled /\ pc' \in {"loop", "check_file"} /\ pc # pc')
            => player' = "idle" /\ sched' = "idle"]_vars

\* C7 witness: the player has exited and loop waits in schedule_p.join()
\* for the schedule process, which still runs.
C7_Witness ==
    /\ ScheduleEnabled
    /\ pc = "join_schedule"
    /\ player = "exited"
    /\ sched = "running"

\* C6: with RETRY_ATTEMPTS < 0 check_file never raises, however many checks
\* fail, and never changes its count of attempts remaining; and if the path
\* is a file from some time on, a check_file that waits returns, the history
\* is written and the player is started.
C6_GateRetriesForEver ==
    /\ [](RETRY_ATTEMPTS < 0 => pc # "aborted")
    /\ []((RETRY_ATTEMPTS < 0 /\ pc \in {"check_file", "sleep"})
            => retry_attempts_remaining = RETRY_ATTEMPTS)
    /\ (<>[]path_exists)
          => []((RETRY_ATTEMPTS < 0 /\ pc \in {"check_file", "sleep"})
                  => <>(pc = "history"))
    /\ []((RETRY_ATTEMPTS < 0 /\ pc = "history") => <>(player = "running"))

\* C6 witness: with RETRY_ATTEMPTS = -1 the gate has returned after two
\* failed checks or more.
C6_Witness ==
    /\ RETRY_ATTEMPTS = -1
    /\ pc = "history"
    /\ sleeps >= 2
    /\ retry_attempts_remaining = -1

\* The coordinator is inside a cycle that has started its units.
UnitsStarted == pc \in {"start_schedule", "join_player", "join_schedule", "write_index"}

\* C8: when ffprobe answers nothing for a file of the slice, only the
\* schedule process fails: the step changes nothing of the coordinator, the
\* player or the files; the coordinator is still in its cycle, which ends
\* after the player has exited with the cursor advanced by one and written;
\* and loop does return, so that the next cycle starts.
C8_ProbeFailureStaysInScheduleUnit ==
    /\ [](sched = "failed" => UnitsStarted /\ pc # "start_schedule")
    /\ [][(sched # "failed" /\ sched' = "failed")
            => UNCHANGED << files, pc, locals, player, player_rc >>]_vars
    /\ [][(sched = "failed" /\ pc' # pc)
            => \/ pc = "join_player" /\ pc' = "join_schedule" /\ player = "exited"
               \/ pc = "join_schedule" /\ pc' = "write_index"
                    /\ play_index' = play_index + 1
               \/ /\ CycleEnds
                  /\ player = "exited"
                  /\ index_file' = [exists |-> TRUE, value |-> PersistedCursor + 1]
                  /\ UNCHANGED << history_file, schedule_file >>]_vars
    /\ (sched = "failed") ~> (pc = "loop")

\* C8 witness: the schedule process has failed, the player has exited and
\* loop is about to write the advanced cursor.
C8_Witness ==
    /\ sched = "failed"
    /\ player = "exited"
    /\ pc = "write_index"
    /\ play_index = PersistedCursor + 1

IsEntry(line) ==
    /\ Len(line) > 0
    /\ line[1] \notin {";", "#"}
    /\ ~(Len(line) >= 2 /\ line[1] = "/" /\ line[2] = "/")

\* C10: the playlist loaded is the subsequence of the source's lines that
\* are not empty and do not begin with ";", "#" or "//", in their order;
\* nothing else survives; and loading the loaded playlist again leaves it
\* as it is.
C10_LoaderKeepsEntriesInOrder ==
    pc = "loop" =>
        /\ media_playlist = SelectSeq(MEDIA_PLAYLIST.lines, IsEntry)
        /\ \A k \in 1..Len(media_playlist) : IsEntry(media_playlist[k])
        /\ NormalizePlaylist(media_playlist) = media_playlist

\* C10 witness: a file of three lines, a "//" comment, an entry that begins
\* with one "/" and an entry with a ";" inside, loads as the two entries.
C10_Witness ==
    /\ pc = "loop"
    /\ MEDIA_PLAYLIST.kind = "file"
    /\ MEDIA_PLAYLIST.lines = << << "/", "/", "s" >>, << "/", "s" >>, << "a", ";" >> >>
    /\ media_playlist = << << "/", "s" >>, << "a", ";" >> >>

\* The player has been started on the entry at index i and still runs.
Playing(i) == player = "running" /\ play_index = i

\* C11: for a playlist of length L >= 1, in a run where the media path is
\* always a file, the units end and the coordinator is not starved, and the
\* process is restarted only a finite number of times, every index in
\* 0..L-1 is played again and again, the coordinator never ends on an
\* exception, and a playback is started again and again.
C11_EveryIndexPlayedForEver ==
    ([]path_exists /\ <>[](pc # "main"))
        => /\ [](pc # "aborted")
           /\ []<>(player = "running")
           /\ \A i \in 0..(LiveMaxLen - 1) :
                []<>(Loaded /\ (i < Len(media_playlist) => Playing(i)))

\* C11 witness: a playlist of two entries is in its second round: the
\* history holds the last entry and the player runs on the first again.
C11_Witness ==
    /\ Len(media_playlist) = 2
    /\ path_exists
    /\ Playing(0)
    /\ cycles >= 3
    /\ PLAY_HISTORY_LENGTH = 1
    /\ history_file.lines[1].file = media_playlist[1]

\* The coordinator is inside a call of loop that has read the index.
InCycle == pc \notin {"main", "loop"}

\* C12 as stated: the persisted cursor is always within 0..L, and no cycle
\* starts with a persisted cursor equal to L: during a cycle, which writes
\* the cursor only at its end, the persisted cursor is below L.
C12_NoCycleStartsAtLength ==
    (Loaded /\ Len(media_playlist) >= 1) =>
        /\ PersistedCursor \in 0..Len(media_playlist)
        /\ InCycle => PersistedCursor # Len(media_playlist)

\* C12 amended: the persisted cursor is always within 0..L; a cycle that
\* starts with the persisted cursor equal to L starts no unit, writes no
\* history and no schedule, and persists 0; so no playback starts with the
\* persisted cursor equal to L.
C12_CycleAtLengthOnlyResets ==
    /\ []((Loaded /\ Len(media_playlist) >= 1)
            => PersistedCursor \in 0..Len(media_playlist))
    /\ []((InCycle /\ Len(media_playlist) >= 1
              /\ PersistedCursor = Len(media_playlist))
            => /\ pc = "write_index"
               /\ play_index = 0
               /\ player = "idle"
               /\ sched = "idle")
    /\ [][(InCycle /\ Len(media_playlist) >= 1
              /\ PersistedCursor = Len(media_playlist))
            => /\ CycleEnds
               /\ index_file' = [exists |-> TRUE, value |-> 0]
               /\ UNCHANGED << history_file, schedule_file, recorded >>]_vars

\* C12 witness: a playlist of two entries or more has been played to its
\* end, and the next call of loop has read the cursor L and is about to
\* write 0.
C12_Witness ==
    /\ Len(media_playlist) >= 2
    /\ PersistedCursor = Len(media_playlist)
    /\ pc = "write_index"
    /\ play_index = 0
    /\ cycles = Len(media_playlist)

\* C13 as stated: a cycle on a playlist that is not empty does not end
\* without a playback, and a cycle that began with a persisted cursor >= L
\* has resolved and played the entry at index 0 when it comes to write the
\* cursor.
C13_CyclePastEndPlaysFirst ==
    (pc = "write_index" /\ Len(media_playlist) >= 1) =>
        /\ player = "exited"
        /\ PersistedCursor >= Len(media_playlist)
              => video_file = media_playlist[1]

\* C13 amended: a cycle that begins with a persisted cursor >= L on a
\* playlist that is not empty resolves no entry, does not gate, record or
\* play, and persists 0; the cycle after it, which begins with the cursor
\* 0, resolves the entry at index 0; and a cycle that begins with a cursor
\* below L does not come to write the cursor without having played the
\* entry at that cursor.
C13_CyclePastEndOnlyResets ==
    /\ []((InCycle /\ Len(media_playlist) >= 1
              /\ PersistedCursor >= Len(media_playlist))
            => /\ pc = "write_index"
               /\ play_index = 0
               /\ video_file = << >>
               /\ checks = 0
               /\ player = "idle"
               /\ sched = "idle")
    /\ [][(InCycle /\ Len(media_playlist) >= 1
              /\ PersistedCursor >= Len(media_playlist))
            => /\ CycleEnds
               /\ index_file' = [exists |-> TRUE, value |-> 0]
               /\ UNCHANGED << history_file, schedule_file, recorded >>]_vars
    /\ [][(pc = "loop" /\ pc' = "check_file")
            => /\ PersistedCursor < Len(media_playlist)
               /\ play_index' = PersistedCursor
               /\ video_file' = media_playlist[PersistedCursor + 1]]_vars
    /\ []((pc = "write_index" /\ PersistedCursor < Len(media_playlist))
            => /\ player = "exited"
               /\ video_file = media_playlist[PersistedCursor + 1])

\* C13 witness: the process was started on a playlist of two entries with
\* 3 in play_index.txt; its first call of loop has read the 3 and is about
\* to write 0, with nothing played.
C13_Witness ==
    /\ Len(media_playlist) = 2
    /\ index_file = [exists |-> TRUE, value |-> 3]
    /\ pc = "write_index"
    /\ play_index = 0
    /\ player = "idle"
    /\ cycles = 0

\* The process runs on a playlist that has no entry.
EmptyPlaylist == Loaded /\ Len(media_playlist) = 0

\* C14: on an empty playlist, whatever play_index.txt holds and with the
\* schedule enabled or not, a call of loop goes from reading the index
\* straight to writing it: check_file is not called, no unit is started and
\* nothing raises; every call writes 0; and play_history.txt and the
\* schedule are left as they are.
C14_EmptyPlaylistOnlyResets ==
    /\ [](EmptyPlaylist
            => /\ pc \in {"loop", "write_index"}
               /\ checks = 0
               /\ player = "idle"
               /\ sched = "idle"
               /\ play_index = 0)
    /\ [][(EmptyPlaylist /\ pc = "loop" /\ pc' \notin {"loop", "main"})
            => pc' = "write_index"]_vars
    /\ [][(EmptyPlaylist /\ pc = "write_index")
            => /\ CycleEnds
               /\ index_file' = [exists |-> TRUE, value |-> 0]]_vars
    /\ [][EmptyPlaylist
            => UNCHANGED << history_file, schedule_file, recorded >>]_vars

\* C14 witness: with the schedule enabled and 2 in play_index.txt, loop on
\* an empty playlist has read the 2 and is about to write 0.
C14_Witness ==
    /\ EmptyPlaylist
    /\ ScheduleEnabled
    /\ index_file = [exists |-> TRUE, value |-> 2]
    /\ pc = "write_index"
    /\ play_index = 0

\* The entry at index c of the playlist the process loads.
ConfiguredEntry(c) == NormalizePlaylist(SourceLines(MEDIA_PLAYLIST))[c + 1]

\* C15: a check that finds no file with no attempt left ends the process in
\* that cycle; from the start of the cycle to that end, and until the
\* process started again has read the index, the persisted cursor and
\* play_history.txt do not change; no unit was started; and the cursor left
\* is the index of the entry that failed, which the restarted process
\* resolves again.
C15_GateFailureLeavesCursorAndHistory ==
    /\ [][(pc = "check_file" /\ ~path_exists /\ retry_attempts_remaining = 0
              /\ pc' # pc)
            => pc' = "aborted"]_vars
    /\ [][(pc' = "aborted" /\ pc # "aborted")
            => /\ pc = "check_file"
               /\ ~path_exists
               /\ retry_attempts_remaining = 0
               /\ UNCHANGED << files, units, recorded >>]_vars
    /\ [][(pc \in {"loop", "check_file", "sleep", "aborted", "main"})
            => /\ PersistedCursor' = PersistedCursor
               /\ UNCHANGED << history_file, schedule_file, units >>]_vars
    /\ [](GateFailed
            => /\ player = "idle"
               /\ sched = "idle"
               /\ play_index = PersistedCursor
               /\ video_file = ConfiguredEntry(PersistedCursor))
    /\ [][(pc = "loop" /\ pc' = "check_file")
            => video_file' = ConfiguredEntry(PersistedCursor)]_vars

\* C15 witness: the first entry was played and recorded; the gate of the
\* second has failed after one retry, with the cursor at 1 and the history
\* holding the first entry alone.
C15_Witness ==
    /\ GateFailed
    /\ RETRY_ATTEMPTS = 1
    /\ PersistedCursor = 1
    /\ video_file = FileB
    /\ Len(recorded) = 1
    /\ history_file.lines = << [time |-> recorded[1].time, file |-> FileA] >>

\* The steps the coordinator may take one after the other, as pairs of
\* places: a cycle that plays goes from reading the index through
\* check_file, the history block, the start of the units and the wait for
\* them to the write of the index.
CycleOrder ==
    { << "main", "loop" >>, << "main", "aborted" >>,
      << "loop", "main" >>, << "aborted", "main" >>,
      << "loop", "check_file" >>, << "loop", "write_index" >>,
      << "check_file", "sleep" >>, << "sleep", "check_file" >>,
      << "check_file", "aborted" >>, << "check_file", "history" >>,
      << "history", "start" >>,
      << "start", "start_schedule" >>, << "start", "join_player" >>,
      << "start_schedule", "join_player" >>,
      << "join_player", "join_schedule" >>, << "join_player", "write_index" >>,
      << "join_schedule", "write_index" >>,
      << "write_index", "loop" >> }

\* The line the history block writes for the entry of this cycle.
HistoryLine == [time |-> video_time, file |-> video_file]

\* C16: the coordinator moves only along CycleOrder; the index is read at
\* the start of the cycle and check_file entered with the entry read; the
\* history is left only after a check that found the file; play_history.txt
\* changes in one step only, from the history block to the start of the
\* units, with PLAY_HISTORY_LENGTH > 0, and that step, taken once in a
\* cycle, appends one line, that of the entry; the player is started in the step after it, so that with
\* PLAY_HISTORY_LENGTH > 0 the last line of the history names the entry
\* played; the units are started only there; check_file never runs while a
\* unit does; the index is written after the units have ended; and with
\* PLAY_HISTORY_LENGTH = 0 the history is never written.
C16_StepsOfCycleInOrder ==
    /\ [][pc' # pc => << pc, pc' >> \in CycleOrder]_vars
    /\ [][(pc = "loop" /\ pc' = "check_file")
            => /\ index_file'.exists
               /\ play_index' = index_file'.value
               /\ video_file' = media_playlist[play_index' + 1]]_vars
    /\ [][(pc' = "history" /\ pc # "history")
            => pc = "check_file" /\ path_exists]_vars
    /\ [][(history_file' # history_file \/ recorded' # recorded)
            => /\ pc = "history" /\ pc' = "start"
               /\ PLAY_HISTORY_LENGTH > 0
               /\ history_file'.exists
               /\ PyIndex(history_file'.lines, -1) = HistoryLine
               /\ PyIndex(recorded', -1) = HistoryLine]_vars
    /\ [][(pc = "history" /\ pc' # pc /\ PLAY_HISTORY_LENGTH > 0)
            => /\ history_file'.exists
               /\ PyIndex(history_file'.lines, -1) = HistoryLine
               /\ Len(history_file'.lines) =
                    Min(Len(history_file.lines) + 1, PLAY_HISTORY_LENGTH)]_vars
    /\ [][(player' # player /\ player' = "running")
            => /\ pc = "start"
               /\ player = "idle"
               /\ PLAY_HISTORY_LENGTH > 0
                    => PyIndex(history_file.lines, -1) = HistoryLine]_vars
    /\ [][(sched' # sched /\ sched' = "running")
            => pc = "start_schedule" /\ player # "idle"]_vars
    /\ []((player # "idle" /\ PLAY_HISTORY_LENGTH > 0)
            => /\ PyIndex(history_file.lines, -1).file = video_file
               /\ PyIndex(recorded, -1).file = video_file)
    /\ [](pc \in {"check_file", "sleep", "history"}
            => player = "idle" /\ sched = "idle")
    /\ [][(CycleEnds /\ pc' = "loop" /\ player # "idle")
            => /\ player = "exited"
               /\ ScheduleEnabled => sched \in {"done", "failed"}]_vars
    /\ [](PLAY_HISTORY_LENGTH = 0
            => history_file = NoHistoryFile /\ recorded = << >>)

\* C16 witness: with PLAY_HISTORY_LENGTH > 0, in the second cycle that
\* plays, the player runs on the second entry and the history ends with the
\* line of that entry, after the line of the first.
C16_Witness ==
    /\ PLAY_HISTORY_LENGTH = 2
    /\ player = "running"
    /\ pc = "join_player"
    /\ play_index = 1
    /\ Len(history_file.lines) = 2
    /\ history_file.lines[1].file = media_playlist[1]
    /\ history_file.lines[2] = HistoryLine

\* C17: the 'previous' name of the schedule written in a cycle is the name
\* of the entry played last before this cycle, the one before the cursor
\* in the round of the playlist, and is empty in the first cycle of all,
\* when no call of loop has returned and so nothing was played before.
C17_PreviousIsLastPlayed ==
    (SliceBuilt /\ sched = "done") =>
        schedule_file.previous =
            IF cycles = 0 THEN << >>
            ELSE DisplayName(media_playlist[
                     ((play_index + Len(media_playlist) - 1)
                          % Len(media_playlist)) + 1])

\* C18: for a playlist and a SCHEDULE_UPCOMING_LENGTH that stay the same,
\* the list handed to write_schedule has the same length in every cycle,
\* wherever the cursor is: the list built in a cycle is as long as the
\* schedule written by the cycle that played before, which is still in
\* place while the schedule process of this cycle has not written.
C18_SliceLengthSameEveryCycle ==
    (SliceBuilt /\ sched \in {"idle", "running"} /\ schedule_file.exists)
        => Len(media_copy) = Len(schedule_file.items)

\* Entry g comes right after entry f in the round of the playlist.
Follows(f, g) ==
    \E i \in 0..(Len(media_playlist) - 1) :
        /\ media_playlist[i + 1] = f
        /\ media_playlist[((i + 1) % Len(media_playlist)) + 1] = g

\* C19: with restarts only between two calls of loop or after the process
\* has ended, the entries are played in the order of the playlist, round
\* and round: the first playback of all is of playlist[0]; every playback
\* is of the entry at the persisted cursor, which only the end of a call of
\* loop changes (its start creating the file with 0), not a restart; and,
\* the history line of a cycle being written right before its playback,
\* of two lines written one after the other the second names the entry that
\* follows the entry of the first in the round.
C19_PlayedInCyclicOrder ==
    /\ []((player = "running" /\ cycles = 0)
            => play_index = 0 /\ video_file = media_playlist[1])
    /\ [][(player' # player /\ player' = "running")
            => /\ play_index = PersistedCursor
               /\ video_file = media_playlist[PersistedCursor + 1]
               /\ PLAY_HISTORY_LENGTH > 0
                    => PyIndex(recorded, -1).file = video_file]_vars
    /\ [][index_file' # index_file
            => \/ CycleEnds
               \/ /\ pc = "loop"
                  /\ ~index_file.exists
                  /\ index_file' = [exists |-> TRUE, value |-> 0]]_vars
    /\ [](Loaded
            => \A k \in 1..(Len(recorded) - 1) :
                 Follows(recorded[k].file, recorded[k + 1].file))

\* C19 witness: on a playlist of two entries the first, the second and the
\* first again have been recorded, and the player runs on the first.
C19_Witness ==
    /\ Len(media_playlist) = 2
    /\ Len(recorded) = 3
    /\ recorded[1].file = FileA
    /\ recorded[2].file = FileB
    /\ recorded[3].file = FileA
    /\ Playing(0)

\* The calls of loop that returned after a playback, each of which advanced
\* the cursor by one: of every L + 1 calls that returned, one only reset
\* the cursor.
Advancements == cycles - (cycles \div (Len(media_playlist) + 1))

\* C20: also when the process is killed inside a cycle and started again,
\* no entry is written to the history twice for one advancement of the
\* cursor: with PLAY_HISTORY_LENGTH > 0 the lines written so far are at
\* most as many as the advancements of the cursor, and one more for the
\* entry whose playback is under way or still to come.
C20_OneRecordPerAdvancement ==
    (/\ Loaded
     /\ Len(media_playlist) >= 1
     /\ PLAY_HISTORY_LENGTH > 0
     /\ cycles < MaxCycles
     /\ Len(recorded) < MaxRecorded)
        => Len(recorded) <= Advancements + 1

====
